---------------------------- MODULE Spec2Model ----------------------------
(***************************************************************************)
(* Model of the two jet-finding benchmark harnesses of                     *)
(* JetReconstructionBenchmarks.jl:                                         *)
(*   src/fastjet/src/fastjet-finder.cc     (variant "finder")              *)
(*   src/fastjet/src/fastjet-inclusive.cc  (variant "inclusive")           *)
(* and of read_input_events in src/fastjet/src/fastjet-utils.cc.           *)
(*                                                                         *)
(* One behaviour is one run of one executable.  pc is the position of      *)
(* main().  The command line is external input: the option parser assigns  *)
(* every option at once, and the model draws the value of an option at     *)
(* the first statement that reads it (nothing in main reads it before), so *)
(* that runs that exit early do not carry options they never look at.      *)
(*                                                                         *)
(* The clustering engine (fastjet) and the event decoder (HepMC3) are      *)
(* external: an event is identified by its position in the input file, a   *)
(* file is a sequence of records that decode (TRUE) or do not (FALSE), and *)
(* a clustering call yields a number of selected jets; the jets selected   *)
(* for an event are local to one iteration of the event loop and are kept  *)
(* only in the dump record written for it.  The strategy and               *)
(* radius options are passed through to the engine unchanged and are not   *)
(* part of the state.                                                      *)
(*                                                                         *)
(* Times are doubles in the source.  Elapsed microseconds are integers;    *)
(* the statistics are modelled exactly: a finite value is a fraction n/d   *)
(* (kind "fin") or the square root of a fraction (kind "sqrt"); division   *)
(* by a zero event count gives IEEE infinity (kind "inf") or NaN (kind     *)
(* "nan") as the hardware does.                                            *)
(***************************************************************************)
EXTENDS Integers, Sequences, FiniteSets, TLC

\* ------------------------------------------------------------------------
\* Bounds of the model
\* ------------------------------------------------------------------------
MaxSrc == 2
MaxMaxEvents == 1
MaxSkip == 1
MaxTrials == 2
MaxElapsed == 1
MaxJets == 1

\* ------------------------------------------------------------------------
\* Program constants
\* ------------------------------------------------------------------------
EXIT_SUCCESS == 0
EXIT_FAILURE == 1
EXIT_MINUS_ONE == 255
EXIT_SIGSEGV == 139

Variants == {"finder", "inclusive"}
AlgNames == {"AntiKt", "CA", "Kt", "GenKt", "Durham", "EEKt"}
AlgArgs == {""} \cup AlgNames \cup {"Bogus"}
PowerValues == {-1, 0, 1, 2}
FileNames == {"missing", "data"}

\* All record sequences of length at most n (TRUE decodes, FALSE does not).
FileContents(n) == UNION {[1..k -> BOOLEAN] : k \in 0..n}

VARIABLES
  variant,          \* which executable runs
  pc,               \* position in main()
  exit_status,      \* process exit status once pc = "exited", else -1
  exit_at,          \* the statement that ended the process, "" while running
  help_count,       \* help_option->count()  /  -h seen by getopt
  bad_option,       \* getopt returned an unknown option (inclusive)
  extra_args,       \* number of non-option arguments
  input_file,       \* "" | "missing" | "data"
  ptmin_set, dijmax_set, njets_set,   \* is_set() of the selection options
  njets,            \* njets_option->value()
  maxevents,
  skip_events,
  trials,
  alg,              \* --algorithm argument
  power,
  algorithm,        \* resolved fastjet::JetAlgorithm
  dump_set,         \* dump_option->is_set()  /  dump
  dump_file,        \* dump_option->value()   /  dump_file
  debug_clusterseq,
  dump_fh,          \* "stdout" | "file" | "NULL"
  read_called,      \* read_input_events has been entered
  reader,           \* the HepMC3::ReaderAscii local of read_input_events
  events_parsed,
  events,           \* the vector of events
  trial,
  ievt,
  time_total, time_total2, sigma, time_lowest,
  mean_per_event, sigma_per_event,
  cluster_log,      \* the calls of run_fastjet_clustering made so far
  dump_log,         \* the event records written to the dump target
  null_write        \* an fprintf on a NULL dump_fh has been executed

cli == <<help_count, bad_option, extra_args, input_file, ptmin_set,
         dijmax_set, njets_set, njets>>
opt == <<maxevents, skip_events, trials, alg, power, algorithm>>
dmp == <<dump_set, dump_file, debug_clusterseq, dump_fh>>
rdr == <<read_called, reader, events_parsed, events>>
loop == <<trial, ievt>>
stat == <<time_total, time_total2, sigma, time_lowest, mean_per_event,
          sigma_per_event>>
logs == <<cluster_log, dump_log, null_write>>
ctl == <<variant, pc, exit_status, exit_at>>
vars == <<ctl, cli, opt, dmp, rdr, loop, stat, logs>>

\* ------------------------------------------------------------------------
\* Double-precision values of the statistics
\* ------------------------------------------------------------------------
Fin(n, d) == [k |-> "fin", n |-> n, d |-> d]
INF == [k |-> "inf", n |-> 1, d |-> 0]
NAN == [k |-> "nan", n |-> 0, d |-> 0]
\* 1.0e20, the initial time_lowest: larger than every elapsed time modelled
HUGE_TIME == [k |-> "1e20", n |-> 1, d |-> 1]

IsZero(x) == x.k \in {"fin", "sqrt"} /\ x.n = 0

\* us_elapsed < time_lowest
LessThan(us, x) == IF x.k = "1e20" THEN TRUE ELSE us * x.d < x.n

RSub(x, y) == Fin(x.n * y.d - y.n * x.d, x.d * y.d)
RMul(x, y) == Fin(x.n * y.n, x.d * y.d)
\* std::sqrt of a non-negative fraction
RSqrt(x) == IF x.n = 0 THEN Fin(0, 1) ELSE [k |-> "sqrt", n |-> x.n, d |-> x.d]
\* x / c for a count c converted to double (c = 0: IEEE inf or NaN)
DivCount(x, c) ==
  IF c = 0 THEN (IF x.n = 0 THEN NAN ELSE INF)
  ELSE IF x.k = "sqrt" THEN [k |-> "sqrt", n |-> x.n, d |-> x.d * c * c]
  ELSE [x EXCEPT !.d = x.d * c]

NoReader == [records |-> <<>>, pos |-> 0, failed |-> FALSE]

Exit(status, at) ==
  /\ pc' = "exited"
  /\ exit_status' = status
  /\ exit_at' = at
  /\ UNCHANGED variant

Goto(next) ==
  /\ pc' = next
  /\ UNCHANGED <<variant, exit_status, exit_at>>

Init ==
  /\ variant \in Variants
  /\ pc = "parse"
  /\ exit_status = -1
  /\ exit_at = ""
  /\ help_count = 0
  /\ bad_option = FALSE
  /\ extra_args = 0
  /\ input_file = ""
  /\ ptmin_set = FALSE /\ dijmax_set = FALSE /\ njets_set = FALSE
  /\ njets = -1
  /\ maxevents = -1
  /\ skip_events = 0
  /\ trials = IF variant = "finder" THEN 1 ELSE 8
  /\ alg = ""
  /\ power = -1
  /\ algorithm = "antikt_algorithm"
  /\ dump_set = FALSE
  /\ dump_file = ""
  /\ debug_clusterseq = FALSE
  /\ dump_fh = "stdout"
  /\ read_called = FALSE
  /\ reader = NoReader
  /\ events_parsed = 0
  /\ events = <<>>
  /\ trial = 0
  /\ ievt = 0
  /\ time_total = Fin(0, 1)
  /\ time_total2 = Fin(0, 1)
  /\ sigma = Fin(0, 1)
  /\ time_lowest = HUGE_TIME
  /\ mean_per_event = Fin(0, 1)
  /\ sigma_per_event = Fin(0, 1)
  /\ cluster_log = <<>>
  /\ dump_log = <<>>
  /\ null_write = FALSE

\* ------------------------------------------------------------------------
\* Command line (fastjet-finder.cc 102-128, fastjet-inclusive.cc 61-118)
\* ------------------------------------------------------------------------

\* fastjet-finder.cc 102: opts.parse(argc, argv); --help is given once or not
\* at all
ParseOptions ==
  /\ pc = "parse" /\ variant = "finder"
  /\ help_count' \in 0..1
  /\ extra_args' \in 0..2
  /\ ptmin_set' \in BOOLEAN
  /\ dijmax_set' \in BOOLEAN
  /\ njets_set' \in BOOLEAN
  /\ njets' \in (IF njets_set' THEN 1..MaxJets ELSE {-1})
  /\ Goto("help")
  /\ UNCHANGED <<bad_option, input_file>>
  /\ UNCHANGED <<opt, dmp, rdr, loop, stat, logs>>

\* fastjet-finder.cc 104-110
CheckHelp ==
  /\ pc = "help" /\ variant = "finder"
  /\ IF help_count = 1
       THEN Exit(EXIT_SUCCESS, "help")
       ELSE Goto("args")
  /\ UNCHANGED <<cli, opt, dmp, rdr, loop, stat, logs>>

\* fastjet-finder.cc 112-120: a missing or surplus file argument is only
\* reported; input_file stays empty and main goes on.
CheckArgs ==
  /\ pc = "args" /\ variant = "finder"
  /\ IF extra_args = 1
       THEN input_file' \in FileNames
       ELSE input_file' = ""
  /\ Goto("select")
  /\ UNCHANGED <<help_count, bad_option, extra_args, ptmin_set, dijmax_set,
                 njets_set, njets>>
  /\ UNCHANGED <<opt, dmp, rdr, loop, stat, logs>>

\* fastjet-finder.cc 123
SelectionSum(n, d, p) ==
  (IF n THEN 1 ELSE 0) + (IF d THEN 1 ELSE 0) + (IF p THEN 1 ELSE 0)

SelectionRejectedLax(sum) == sum = 0

\* fastjet-finder.cc 124
SelectionRejected(sum) == sum # 1

\* fastjet-finder.cc 122-128
CheckSelection ==
  /\ pc = "select" /\ variant = "finder"
  /\ IF SelectionRejected(SelectionSum(njets_set, dijmax_set, ptmin_set))
       THEN Exit(EXIT_FAILURE, "selection")
       ELSE Goto("open")
  /\ UNCHANGED <<cli, opt, dmp, rdr, loop, stat, logs>>

\* fastjet-inclusive.cc 61-103: the getopt loop.  -h exits with -1, an
\* unknown option with EXIT_FAILURE; the inclusive harness always selects
\* inclusive jets above ptmin.
GetoptLoop ==
  /\ pc = "parse" /\ variant = "inclusive"
  /\ \E outcome \in {"ok", "help", "bad"} :
       /\ help_count' = (IF outcome = "help" THEN 1 ELSE 0)
       /\ bad_option' = (outcome = "bad")
       /\ IF outcome = "help" THEN Exit(EXIT_MINUS_ONE, "help")
          ELSE IF outcome = "bad" THEN Exit(EXIT_FAILURE, "usage")
          ELSE Goto("args")
  /\ extra_args' \in 0..2
  /\ ptmin_set' = TRUE
  /\ UNCHANGED <<input_file, dijmax_set, njets_set, njets>>
  /\ UNCHANGED <<opt, dmp, rdr, loop, stat, logs>>

\* fastjet-inclusive.cc 105-118
CheckArgsInclusive ==
  /\ pc = "args" /\ variant = "inclusive"
  /\ IF extra_args = 0
       THEN Exit(EXIT_FAILURE, "nofile") /\ UNCHANGED input_file
       ELSE IF extra_args > 1
         THEN Exit(EXIT_FAILURE, "extrafile") /\ UNCHANGED input_file
         ELSE input_file' \in FileNames /\ Goto("open")
  /\ UNCHANGED <<help_count, bad_option, extra_args, ptmin_set, dijmax_set,
                 njets_set, njets>>
  /\ UNCHANGED <<opt, dmp, rdr, loop, stat, logs>>

\* ------------------------------------------------------------------------
\* read_input_events (fastjet-utils.cc 26-65)
\* ------------------------------------------------------------------------

\* fastjet-utils.cc 30: the reader over the named file.  Only "data" names
\* a file that exists; a reader over any other name has failed already.
OpenReader ==
  /\ pc = "open"
  /\ maxevents' \in -1..MaxMaxEvents
  /\ read_called' = TRUE
  /\ IF input_file = "data"
       THEN \E recs \in FileContents(MaxSrc) :
              reader' = [records |-> recs, pos |-> 0, failed |-> FALSE]
       ELSE reader' = [records |-> <<>>, pos |-> 0, failed |-> TRUE]
  /\ events_parsed' = 0
  /\ events' = <<>>
  /\ Goto("read")
  /\ UNCHANGED <<skip_events, trials, alg, power, algorithm>>
  /\ UNCHANGED <<cli, dmp, loop, stat, logs>>

MaxReachedOffByOne(parsed, maxev) == maxev >= 0 /\ parsed > maxev

\* fastjet-utils.cc 37
MaxReached(parsed, maxev) == maxev >= 0 /\ parsed >= maxev

\* fastjet-utils.cc 44-47: read_event succeeds on the next record iff there
\* is one and it decodes
NextDecodes(r) == r.pos < Len(r.records) /\ r.records[r.pos + 1]

\* fastjet-utils.cc 60
PushBack(evs, e) == Append(evs, e)

\* fastjet-utils.cc 36-61: one iteration that enters the loop body and
\* calls read_event
ReadEvent ==
  /\ pc = "read"
  /\ ~reader.failed
  /\ ~MaxReached(events_parsed, maxevents)
  /\ IF NextDecodes(reader)
       THEN /\ reader' = [reader EXCEPT !.pos = reader.pos + 1]
            /\ events_parsed' = events_parsed + 1
            /\ events' = PushBack(events, reader.pos + 1)
            /\ Goto("read")
       ELSE /\ reader' = [reader EXCEPT !.failed = TRUE]
            /\ UNCHANGED <<events_parsed, events>>
            /\ Goto("read_ret")
  /\ UNCHANGED read_called
  /\ UNCHANGED <<cli, opt, dmp, loop, stat, logs>>

\* fastjet-utils.cc 36-37: the loop ends on its condition or on the
\* maxevents break
ReadLoopEnd ==
  /\ pc = "read"
  /\ reader.failed \/ MaxReached(events_parsed, maxevents)
  /\ Goto("read_ret")
  /\ UNCHANGED <<cli, opt, dmp, rdr, loop, stat, logs>>

\* fastjet-utils.cc 63-64 and the assignment at the call site
\* (fastjet-finder.cc 132, fastjet-inclusive.cc 122); the reader is a local
\* and is destroyed
ReturnEvents ==
  /\ pc = "read_ret"
  /\ reader' = NoReader
  /\ Goto("resolve")
  /\ UNCHANGED <<read_called, events_parsed, events>>
  /\ UNCHANGED <<cli, opt, dmp, loop, stat, logs>>

\* ------------------------------------------------------------------------
\* Algorithm resolution
\* ------------------------------------------------------------------------

AlgorithmNamedSwapped(a) ==
  CASE a = "AntiKt" -> "antikt_algorithm"
    [] a = "CA" -> "cambridge_aachen_algorithm"
    [] a = "Kt" -> "kt_algorithm"
    [] a = "GenKt" -> "genkt_algorithm"
    [] a = "Durham" -> "ee_genkt_algorithm"
    [] a = "EEKt" -> "ee_kt_algorithm"

\* fastjet-finder.cc 144-159
AlgorithmNamed(a) ==
  CASE a = "AntiKt" -> "antikt_algorithm"
    [] a = "CA" -> "cambridge_aachen_algorithm"
    [] a = "Kt" -> "kt_algorithm"
    [] a = "GenKt" -> "genkt_algorithm"
    [] a = "Durham" -> "ee_kt_algorithm"
    [] a = "EEKt" -> "ee_genkt_algorithm"

\* fastjet-finder.cc 146, 149, 152, 157: the power a named algorithm forces
PowerNamed(a, p) ==
  CASE a = "AntiKt" -> -1
    [] a = "CA" -> 0
    [] a \in {"Kt", "Durham"} -> 1
    [] OTHER -> p

\* fastjet-finder.cc 165-173
AlgorithmOfPower(p) ==
  IF p = -1 THEN "antikt_algorithm"
  ELSE IF p = 0 THEN "cambridge_aachen_algorithm"
  ELSE IF p = 1 THEN "kt_algorithm"
  ELSE "genkt_algorithm"

\* fastjet-inclusive.cc 132-137
AlgorithmOfPowerInclusive(p) ==
  IF p = 0 THEN "cambridge_aachen_algorithm"
  ELSE IF p = 1 THEN "kt_algorithm"
  ELSE "antikt_algorithm"

\* fastjet-finder.cc 142-174
ResolveAlgorithm ==
  /\ pc = "resolve" /\ variant = "finder"
  /\ \E a \in AlgArgs, p \in PowerValues :
       /\ alg' = a
       /\ IF a # ""
            THEN IF a \in AlgNames
                   THEN /\ algorithm' = AlgorithmNamed(a)
                        /\ power' = PowerNamed(a, p)
                        /\ Goto("dump")
                   ELSE /\ UNCHANGED algorithm
                        /\ power' = p
                        /\ Exit(1, "algorithm")
            ELSE /\ algorithm' = AlgorithmOfPower(p)
                 /\ power' = p
                 /\ Goto("dump")
  /\ UNCHANGED <<maxevents, skip_events, trials>>
  /\ UNCHANGED <<cli, dmp, rdr, loop, stat, logs>>

\* fastjet-inclusive.cc 132-137: there is no algorithm option
ResolveAlgorithmInclusive ==
  /\ pc = "resolve" /\ variant = "inclusive"
  /\ \E p \in PowerValues :
       /\ power' = p
       /\ algorithm' = AlgorithmOfPowerInclusive(p)
  /\ Goto("dump")
  /\ UNCHANGED <<maxevents, skip_events, trials, alg>>
  /\ UNCHANGED <<cli, dmp, rdr, loop, stat, logs>>

\* ------------------------------------------------------------------------
\* Dump target (fastjet-finder.cc 178-183, fastjet-inclusive.cc 141-146)
\* ------------------------------------------------------------------------

\* fopen(name, "w"): a handle, or NULL when the file cannot be opened
FopenResults == {"file", "NULL"}

\* fastjet-finder.cc 178-189, fastjet-inclusive.cc 141-152: the dump handle
\* is set without a check of fopen's result, the accumulators are
\* initialised and the trial loop is entered
OpenDump ==
  /\ pc = "dump"
  /\ dump_set' \in BOOLEAN
  /\ dump_file' \in (IF dump_set' THEN {"-", "file"} ELSE {""})
  /\ debug_clusterseq' \in
       (IF dump_set' /\ variant = "finder" THEN BOOLEAN ELSE {FALSE})
  /\ IF dump_set' /\ dump_file' # "-"
       THEN dump_fh' \in FopenResults
       ELSE dump_fh' = "stdout"
  /\ trials' \in 1..MaxTrials
  /\ trial' = 0
  /\ time_total' = Fin(0, 1)
  /\ time_total2' = Fin(0, 1)
  /\ sigma' = Fin(0, 1)
  /\ time_lowest' = HUGE_TIME
  /\ Goto("trial")
  /\ UNCHANGED <<maxevents, skip_events, alg, power, algorithm>>
  /\ UNCHANGED <<ievt, mean_per_event, sigma_per_event>>
  /\ UNCHANGED <<cli, rdr, logs>>

\* ------------------------------------------------------------------------
\* Trial loop (fastjet-finder.cc 189-228, fastjet-inclusive.cc 152-176)
\* ------------------------------------------------------------------------

\* fastjet-finder.cc 192: size_t ievt = skip_events_option->value();
\* fastjet-inclusive.cc 155: size_t ievt = 0
FirstEvent(v, skip) == IF v = "finder" THEN skip ELSE 0

\* fastjet-finder.cc 189-192, fastjet-inclusive.cc 152-155: the loop test
\* passes, the start time is taken and the event loop is initialised
StartTrial ==
  /\ pc = "trial"
  /\ trial < trials
  /\ IF variant = "finder" /\ trial = 0
       THEN skip_events' \in 0..MaxSkip
       ELSE UNCHANGED skip_events
  /\ ievt' = FirstEvent(variant, skip_events')
  /\ Goto("event")
  /\ UNCHANGED <<maxevents, trials, alg, power, algorithm>>
  /\ UNCHANGED trial
  /\ UNCHANGED <<cli, dmp, rdr, stat, logs>>

\* The engine is a deterministic function of the event and the
\* configuration.  The content of the input events is fixed so that the
\* inclusive selection above ptmin and the exclusive selection below dijmax
\* of the event at file position e have (e - 1) mod (MaxJets + 1) jets.
EngineJets(e) == (e - 1) % (MaxJets + 1)

\* fastjet-finder.cc 195-203, fastjet-inclusive.cc 41: the number of jets
\* the selection returns for event e; exclusive_jets(n) returns n jets, and
\* final_jets stays empty when no branch is taken.
FinalJetsSize(v, pset, dset, nset, n, e) ==
  IF v = "inclusive" \/ pset \/ dset THEN EngineJets(e)
  ELSE IF nset THEN n
  ELSE 0

\* fastjet-finder.cc 205 (dump_option->is_set() && trial==0),
\* fastjet-inclusive.cc 158 (dump)
DumpsEvent(v, dset, t) == IF v = "finder" THEN dset /\ t = 0 ELSE dset

\* fastjet-finder.cc 206-218, fastjet-inclusive.cc 159-166: the record of
\* one event: the 1-based event index, the jet indices 0..k-1 and, in the
\* finder with debug-clusterseq, the cluster sequence (which goes to
\* std::cout)
DumpRecord(v, t, i, k, dbg, fh) ==
  [trial |-> t, event |-> i + 1, jets |-> [j \in 1..k |-> j - 1],
   history |-> (v = "finder" /\ dbg), fh |-> fh]

\* fastjet-finder.cc 193-219, fastjet-inclusive.cc 156-167: one event of a
\* trial is clustered, its jets are selected and, when dumping, written.
\* The log entry of the call carries the size of the selection made from
\* its cluster sequence.
\* fprintf on a NULL handle is undefined behaviour: the process is killed
\* by a signal or the call returns without writing.
ClusterEvent ==
  /\ pc = "event"
  /\ ievt < Len(events)
  /\ LET k == FinalJetsSize(variant, ptmin_set, dijmax_set, njets_set, njets,
                            events[ievt + 1])
     IN /\ cluster_log' = Append(cluster_log,
             [trial |-> trial, event |-> events[ievt + 1],
              algorithm |-> algorithm, power |-> power, selected |-> k])
        /\ IF DumpsEvent(variant, dump_set, trial)
          THEN IF dump_fh = "NULL"
                 THEN /\ null_write' = TRUE
                      /\ UNCHANGED dump_log
                      /\ \/ Exit(EXIT_SIGSEGV, "sigsegv") /\ UNCHANGED ievt
                         \/ Goto("event") /\ ievt' = ievt + 1
                 ELSE /\ dump_log' = Append(dump_log,
                           DumpRecord(variant, trial, ievt, k,
                                      debug_clusterseq, dump_fh))
                      /\ UNCHANGED null_write
                      /\ Goto("event") /\ ievt' = ievt + 1
          ELSE /\ UNCHANGED <<dump_log, null_write>>
               /\ Goto("event") /\ ievt' = ievt + 1
  /\ UNCHANGED trial
  /\ UNCHANGED <<cli, opt, dmp, rdr, stat>>

\* fastjet-finder.cc 192, 221-228, fastjet-inclusive.cc 155, 169-176: the
\* event loop is over, the elapsed time is taken and accumulated
EndTrial ==
  /\ pc = "event"
  /\ ievt >= Len(events)
  /\ \E us_elapsed \in 0..MaxElapsed :
       /\ time_total' = Fin(time_total.n + us_elapsed, 1)
       /\ time_total2' = Fin(time_total2.n + us_elapsed * us_elapsed, 1)
       /\ time_lowest' = IF LessThan(us_elapsed, time_lowest)
                           THEN Fin(us_elapsed, 1) ELSE time_lowest
  /\ trial' = trial + 1
  /\ Goto("trial")
  /\ UNCHANGED <<ievt, sigma, mean_per_event, sigma_per_event>>
  /\ UNCHANGED <<cli, opt, dmp, rdr, logs>>

\* ------------------------------------------------------------------------
\* Statistics (fastjet-finder.cc 229-244, fastjet-inclusive.cc 177-192)
\* ------------------------------------------------------------------------

EventCountAfterSkip(evs, skip) ==
  IF skip < Len(evs) THEN Len(evs) - skip ELSE 0

\* fastjet-finder.cc 236-238, fastjet-inclusive.cc 184-186: events.size()
EventCount(evs, skip) == Len(evs)

\* fastjet-finder.cc 231-235, fastjet-inclusive.cc 179-183
Sigma(t, mean, mean2) ==
  IF t > 1 THEN RSqrt(RMul(Fin(t, t - 1), RSub(mean2, RMul(mean, mean))))
  ELSE Fin(0, 1)

\* fastjet-finder.cc 229-244, fastjet-inclusive.cc 177-192: the loop test
\* fails, the statistics are computed and printed, main returns 0
Aggregate ==
  /\ pc = "trial"
  /\ trial >= trials
  /\ time_total' = DivCount(time_total, trials)
  /\ time_total2' = DivCount(time_total2, trials)
  /\ sigma' = Sigma(trials, time_total', time_total2')
  /\ mean_per_event' = DivCount(time_total', EventCount(events, skip_events))
  /\ sigma_per_event' = DivCount(sigma', EventCount(events, skip_events))
  /\ time_lowest' = DivCount(time_lowest, EventCount(events, skip_events))
  /\ Exit(0, "return")
  /\ UNCHANGED <<cli, opt, dmp, rdr, loop, logs>>

Next ==
  \/ ParseOptions
  \/ CheckHelp
  \/ CheckArgs
  \/ CheckSelection
  \/ GetoptLoop
  \/ CheckArgsInclusive
  \/ OpenReader
  \/ ReadEvent
  \/ ReadLoopEnd
  \/ ReturnEvents
  \/ ResolveAlgorithm
  \/ ResolveAlgorithmInclusive
  \/ OpenDump
  \/ StartTrial
  \/ ClusterEvent
  \/ EndTrial
  \/ Aggregate

Spec == Init /\ [][Next]_vars

\* ------------------------------------------------------------------------
\* Properties
\* ------------------------------------------------------------------------

\* the number of records a reader decodes before its first failure
RECURSIVE Decodable(_)
Decodable(recs) ==
  IF recs = <<>> \/ ~Head(recs) THEN 0 ELSE 1 + Decodable(Tail(recs))

FlagsSet == Cardinality({f \in {"njets", "dijmax", "ptmin"} :
                 \/ f = "njets" /\ njets_set
                 \/ f = "dijmax" /\ dijmax_set
                 \/ f = "ptmin" /\ ptmin_set})

Exited == pc = "exited"
NoTrialRun == trial = 0 /\ pc # "event" /\ cluster_log = <<>>

C2_DumpOnlyInTrial0 ==
  \A i \in 1..Len(dump_log) : dump_log[i].trial = 0

\* C3: skip_events only decides which events are clustered (those at
\* indices skip_events .. N-1); when the finder computes its statistics, the
\* mean, the standard deviation and the minimum per event are the per-trial
\* values (sum S, sum of squares S2 and minimum over the T trials) divided
\* by the full event count N, never by N - skip_events.
C3_NormalisedByFullCount ==
  [][(variant = "finder" /\ pc = "trial" /\ pc' = "exited") =>
       LET N == Len(events)
           T == trials
           S == time_total.n
           S2 == time_total2.n
           lowest == time_lowest.n
       IN /\ \A i \in 1..Len(cluster_log) :
               cluster_log[i].event \in (skip_events + 1)..N
          /\ time_total.d = 1 /\ time_total2.d = 1 /\ time_lowest.d = 1
          /\ IF N = 0
               THEN /\ mean_per_event' = (IF S = 0 THEN NAN ELSE INF)
                    /\ time_lowest' = (IF lowest = 0 THEN NAN ELSE INF)
                    /\ sigma_per_event'.k \in {"inf", "nan"}
               ELSE /\ mean_per_event'.k = "fin"
                    /\ mean_per_event'.n * (T * N) = S * mean_per_event'.d
                    /\ time_lowest'.k = "fin"
                    /\ time_lowest'.n * N = lowest * time_lowest'.d
                    /\ IF T = 1 \/ T * S2 = S * S
                         THEN IsZero(sigma_per_event')
                         ELSE /\ sigma_per_event'.k = "sqrt"
                              /\ sigma_per_event'.n * (T * (T - 1) * N * N)
                                   = (T * S2 - S * S) * sigma_per_event'.d
  ]_vars

C3_Witness ==
  /\ variant = "finder" /\ exit_at = "return"
  /\ skip_events = 1 /\ Len(events) = 2
  /\ trials = 2 /\ Len(cluster_log) = 2
  /\ mean_per_event = Fin(1, 4) /\ sigma_per_event.k = "sqrt"

\* C4: read_input_events returns the first min(maxevents, K) events of a
\* source whose reader decodes K events (all K when maxevents < 0), in the
\* order of the source.
C4_ReadReturnsFirstEvents ==
  pc = "read_ret" =>
     LET K == Decodable(reader.records)
         count == IF maxevents >= 0
                    THEN (IF maxevents < K THEN maxevents ELSE K)
                    ELSE K
     IN /\ events = [i \in 1..count |-> i]
        /\ events_parsed = count

C4_Witness ==
  /\ pc = "read_ret" /\ maxevents = 1
  /\ Decodable(reader.records) = 2 /\ events = <<1>>

\* C5: every configuration error of the finder (no input file argument,
\* more than one, or an unknown algorithm name) ends the process with a
\* non-zero status before read_input_events is called.
C5_ConfigErrorsExitBeforeRead ==
  (/\ variant = "finder" /\ pc # "parse" /\ help_count # 1
   /\ extra_args # 1 \/ alg \notin ({""} \cup AlgNames)) =>
     /\ ~read_called
     /\ Exited => exit_status # 0

\* C6: with an empty event store (here: read from an existing input file)
\* the statistics are not computed by a division by zero and the run does
\* not end successfully with infinite or NaN statistics.
C6_EmptyEventSetRejected ==
  (Exited /\ read_called /\ input_file = "data" /\ Len(events) = 0) =>
     /\ exit_status # 0
     /\ mean_per_event.k \notin {"inf", "nan"}
     /\ sigma_per_event.k \notin {"inf", "nan"}
     /\ time_lowest.k \notin {"inf", "nan"}

\* C7: when the reader has failed before producing any event (here: the
\* named file cannot be opened), read_input_events does not return to main;
\* the run ends with an error.
C7_ReadFailureIsError ==
  (read_called /\ input_file = "missing") =>
     /\ pc \in {"read", "read_ret", "exited"}
     /\ Exited => exit_status # 0

\* the algorithm kind the option table of the harness names
KindTable ==
  {<<"AntiKt", "antikt_algorithm">>, <<"CA", "cambridge_aachen_algorithm">>,
   <<"Kt", "kt_algorithm">>, <<"GenKt", "genkt_algorithm">>,
   <<"EEKt", "ee_genkt_algorithm">>, <<"Durham", "ee_kt_algorithm">>}

KindNamed(a) ==
  IF a \in AlgNames THEN (CHOOSE e \in KindTable : e[1] = a)[2] ELSE "none"

KindOfPower(p) ==
  IF p \in {-1, 0, 1}
    THEN <<"antikt_algorithm", "cambridge_aachen_algorithm",
           "kt_algorithm">>[p + 2]
    ELSE "genkt_algorithm"

Resolved == pc \in {"dump", "trial", "event"} \/ exit_at \in {"return", "sigsegv"}

\* C8 (as stated): once resolved, the algorithm is the one named by
\* --algorithm whatever the power, and without --algorithm power -1 gives
\* AntiKt, 0 CambridgeAachen, 1 Kt and every other power GenKt; every
\* clustering call of the run is made with that algorithm.
C8_Original ==
  /\ cluster_log # <<>> => Resolved
  /\ Resolved =>
       /\ algorithm = (IF alg # "" THEN KindNamed(alg) ELSE KindOfPower(power))
       /\ \A i \in 1..Len(cluster_log) : cluster_log[i].algorithm = algorithm

\* C8 (amended): as stated for the finder; the inclusive harness has no
\* algorithm option and resolves power 0 to CambridgeAachen, 1 to Kt and
\* every other power to AntiKt.  In both, every clustering call of the run
\* is made with the resolved algorithm.
C8_AlgorithmResolution ==
  /\ cluster_log # <<>> => Resolved
  /\ Resolved =>
       /\ variant = "finder" =>
            algorithm = (IF alg # "" THEN KindNamed(alg) ELSE KindOfPower(power))
       /\ variant = "inclusive" =>
            /\ alg = ""
            /\ algorithm = (IF power \in {0, 1} THEN KindOfPower(power)
                            ELSE "antikt_algorithm")
       /\ \A i \in 1..Len(cluster_log) : cluster_log[i].algorithm = algorithm

C8_Witness ==
  /\ variant = "finder" /\ alg = "Durham" /\ algorithm = "ee_kt_algorithm"
  /\ Len(cluster_log) = 2 /\ exit_at = "return"

\* C9: when the dump file cannot be opened (the input file being readable)
\* the run is aborted: no trial is started and nothing is written through
\* the failed handle.
C9_DumpOpenFailureFatal ==
  (dump_fh = "NULL" /\ input_file = "data") =>
     /\ pc # "event"
     /\ NoTrialRun
     /\ ~null_write
     /\ Exited => exit_status # 0

\* C10: a run with one trial (over an existing input file) reports a
\* standard deviation of exactly 0.
C10_SingleTrialSigmaZero ==
  (exit_at = "return" /\ trials = 1 /\ input_file = "data") =>
     /\ IsZero(sigma)
     /\ IsZero(sigma_per_event)

\* the index of the first event a trial clusters
SkipOf == IF variant = "finder" THEN skip_events ELSE 0

\* the number of events one full trial clusters
PerTrial == IF SkipOf < Len(events) THEN Len(events) - SkipOf ELSE 0

InTrialLoop == pc \in {"trial", "event"} \/ exit_at \in {"return", "sigsegv"}

\* entry j of the clustering log is the call for the event at index
\* SkipOf + (j-1) mod PerTrial in trial (j-1) div PerTrial, and carries the
\* selection made from that event
LogEntryInOrder(j) ==
  /\ cluster_log[j].trial = (j - 1) \div PerTrial
  /\ cluster_log[j].event = events[SkipOf + ((j - 1) % PerTrial) + 1]
  /\ cluster_log[j].selected =
       FinalJetsSize(variant, ptmin_set, dijmax_set, njets_set, njets,
                     cluster_log[j].event)

\* C11: in the finder, with 0 <= skip <= N, every trial clusters exactly the
\* events at
\* indices skip .. N-1, once each and in increasing order, each with its
\* own selection; a run makes T * (N - skip) clustering calls, a fresh one
\* for every (trial, event) pair, and has recorded one elapsed time per
\* trial (the trial counter is advanced with the recording, after the
\* trial's last event) when it ends.
C11_TrialsClusterEveryEvent ==
  (/\ variant = "finder" /\ InTrialLoop /\ input_file = "data"
   /\ SkipOf <= Len(events)) =>
     /\ \A j \in 1..Len(cluster_log) : LogEntryInOrder(j)
     /\ pc = "trial" => Len(cluster_log) = trial * PerTrial
     /\ pc = "event" =>
          /\ ievt \in SkipOf..Len(events)
          /\ Len(cluster_log) = trial * PerTrial + (ievt - SkipOf)
     /\ Exited =>
          /\ Len(cluster_log) = trials * PerTrial
          /\ trial = trials

\* the number of log entries made during trial 0
InTrial0(log) == Cardinality({j \in 1..Len(log) : log[j].trial = 0})

\* C12: with dump enabled, trial 0 writes one record per clustered event, in
\* event order; the record of the event at index i is labelled i + 1 (the
\* first one skip + 1) and numbers its jets 0 .. k-1 in selection order.  A
\* run over 3 events with njets = 2 and one trial writes exactly 3 records
\* of 2 jets each.
C12_DumpRecordPerEvent ==
  (InTrialLoop /\ dump_set /\ input_file = "data") =>
     /\ InTrial0(dump_log) = InTrial0(cluster_log)
     /\ \A j \in 1..InTrial0(dump_log) :
          /\ dump_log[j].trial = 0
          /\ dump_log[j].event = SkipOf + j
          /\ dump_log[j].jets =
               [m \in 1..cluster_log[j].selected |-> m - 1]
     /\ (/\ variant = "finder" /\ njets_set /\ njets = 2 /\ trials = 1
         /\ skip_events = 0 /\ Len(events) = 3 /\ exit_at = "return") =>
          /\ Len(dump_log) = 3
          /\ \A j \in 1..3 : dump_log[j].jets = <<0, 1>>

=============================================================================
